---- MODULE Spec2Model ----
(***************************************************************************)
(* A model of the dml library (src/dml.c): head, tail, randomDataStream,   *)
(* createFloatVector, mean, compareVectors, median, standardDeviation,     *)
(* scaleToUnity and scaleVector, each called by a single-threaded caller   *)
(* on a table (csvData_t: rows, cols, dataFrame) or on a float vector.     *)
(*                                                                         *)
(* Floats are modelled in exact arithmetic: a finite value is a reduced    *)
(* fraction <<n, d>> with d > 0, and the IEEE special values a division by *)
(* zero produces are <<1, 0>> (+inf), <<-1, 0>> (-inf) and <<0, 0>> (NaN). *)
(* Rounding and the sign of zero are not modelled.                         *)
(***************************************************************************)
EXTENDS Integers, Sequences, FiniteSets, TLC

(* ------------------------------ bounds -------------------------------- *)

\* A table given to head, tail, mean, median, standardDeviation has at most
\* MaxCells cells (rows * cols).
MaxCells == 4
\* A table given to randomDataStream has at most MaxSampleCells cells.
MaxSampleCells == 3
\* randomDataStream is asked for at most MaxN values.
MaxN == 2
\* The caller makes at most MaxCalls calls of randomDataStream in the process.
MaxCalls == 2
\* A vector given to scaleToUnity, scaleVector, createFloatVector has at most
\* MaxLen elements.
MaxLen == 3

\* The values of the cells of a table.
Vals == {1, 3, 5, 7}
\* The values of the elements of a vector, and of the scaling bounds.
ScaleVals == {-1, 0, 1, 5}
\* What a read outside the table may find in memory.
Garbage == {0, 7}
\* Values rand() may return: it returns an int in 0..RAND_MAX, and 32767 is
\* the least RAND_MAX the C standard allows.
RandDraws == {0, 1, 2, 3, 4, 32767}

(* --------------------------- float arithmetic ------------------------- *)

Abs(x) == IF x < 0 THEN -x ELSE x

Sign(x) == IF x < 0 THEN -1 ELSE IF x > 0 THEN 1 ELSE 0

RECURSIVE GCD(_, _)
GCD(a, b) == IF b = 0 THEN a ELSE GCD(b, a % b)

\* The fraction n/d (d # 0) in reduced form with a positive denominator.
Norm(n, d) ==
    LET g == GCD(Abs(n), Abs(d))
        s == IF d < 0 THEN -1 ELSE 1
    IN  <<(s * n) \div g, (s * d) \div g>>

F(i) == <<i, 1>>
NaN == <<0, 0>>
Inf(s) == <<s, 0>>

IsNaN(a) == a[2] = 0 /\ a[1] = 0
IsInf(a) == a[2] = 0 /\ a[1] # 0
IsFinite(a) == a[2] > 0
IsZero(a) == a[2] > 0 /\ a[1] = 0

FNeg(a) == <<-a[1], a[2]>>

\* a + b on floats.
FAdd(a, b) ==
    IF IsNaN(a) \/ IsNaN(b) THEN NaN
    ELSE IF IsInf(a) THEN (IF IsInf(b) /\ a # b THEN NaN ELSE a)
    ELSE IF IsInf(b) THEN b
    ELSE Norm(a[1] * b[2] + b[1] * a[2], a[2] * b[2])

\* a - b on floats.
FSub(a, b) == FAdd(a, FNeg(b))

\* a * b on floats.
FMul(a, b) ==
    IF IsNaN(a) \/ IsNaN(b) THEN NaN
    ELSE IF IsInf(a) \/ IsInf(b)
         THEN (IF IsZero(a) \/ IsZero(b) THEN NaN
               ELSE Inf(Sign(a[1]) * Sign(b[1])))
    ELSE Norm(a[1] * b[1], a[2] * b[2])

\* a / b on floats: a division by zero yields an infinity or NaN, it does
\* not trap.
FDiv(a, b) ==
    IF IsNaN(a) \/ IsNaN(b) THEN NaN
    ELSE IF IsInf(a)
         THEN (IF IsInf(b) THEN NaN
               ELSE Inf(Sign(a[1]) * (IF b[1] < 0 THEN -1 ELSE 1)))
    ELSE IF IsInf(b) THEN F(0)
    ELSE IF IsZero(b)
         THEN (IF IsZero(a) THEN NaN ELSE Inf(Sign(a[1])))
    ELSE Norm(a[1] * b[2], a[2] * b[1])

\* a < b on floats: false when either is NaN.
FLt(a, b) ==
    IF IsNaN(a) \/ IsNaN(b) THEN FALSE
    ELSE IF IsInf(a) THEN a[1] < 0 /\ a # b
    ELSE IF IsInf(b) THEN b[1] > 0
    ELSE a[1] * b[2] < b[1] * a[2]

FGt(a, b) == FLt(b, a)

FLe(a, b) ==
    IF IsNaN(a) \/ IsNaN(b) THEN FALSE ELSE ~FLt(b, a)

(* ------------------------------ inputs -------------------------------- *)

RECURSIVE SeqsOfLen(_, _)
\* The sequences over S of length k.
SeqsOfLen(S, k) ==
    IF k = 0 THEN {<<>>}
    ELSE {Append(s, x) : s \in SeqsOfLen(S, k - 1), x \in S}

\* The float vectors of k elements with values in S.
FloatSeqs(S, k) == {[j \in 1..k |-> F(v[j])] : v \in SeqsOfLen(S, k)}

\* The tables with r rows and c columns.
TablesOf(r, c) ==
    {[rows |-> r, cols |-> c, dataFrame |-> d] :
        d \in SeqsOfLen(FloatSeqs(Vals, c), r)}

\* The tables with at least one row and one column and at most n cells.
Tables(n) ==
    UNION {TablesOf(p[1], p[2]) :
             p \in {q \in (1..n) \X (1..n) : q[1] * q[2] <= n}}

\* The tables of a source with no data row.
EmptyTables == {[rows |-> 0, cols |-> c, dataFrame |-> <<>>] : c \in 1..2}

NoTable == [rows |-> 0, cols |-> 0, dataFrame |-> <<>>]

\* The float vectors of at most n elements.
Vectors(n) ==
    UNION {FloatSeqs(ScaleVals, k) : k \in 0..n}

NullVec == [isNull |-> TRUE, elems |-> <<>>]
Vec(s) == [isNull |-> FALSE, elems |-> s]

\* An allocated slot nothing has been written to.
Uninit == <<0, -1>>

(* ------------------------------- state -------------------------------- *)

VARIABLES
    df,           \* the table the caller has loaded (csvData_t)
    data,         \* the float vector the caller has prepared
    op,           \* the function last called ("none" before any call)
    col,          \* its column argument
    lines,        \* its lines argument
    numOfData,    \* randomDataStream's numOfData; createFloatVector's len
    vector,       \* the vector argument of scaleToUnity, scaleVector
    lowerBound,   \* the bounds given to scaleToUnity, scaleVector
    upperBound,
    newLowBound,
    newUpBound,
    allocOk,      \* whether the call's malloc returned a buffer
    outcome,      \* "idle", "running", "returned" or "crashed"
    retF,         \* the float returned by mean, median, standardDeviation
    retV,         \* the vector returned (or being filled)
    out,          \* what head, tail have written to the standard output
    reads,        \* the <<row, col>> indices of dataFrame the call has read
    nullDeref,    \* the call wrote through a null buffer
    seedCount,    \* how many times srand has been called in the process
    chained       \* the call's vector is what the call before returned

vars == <<df, data, op, col, lines, numOfData, vector, lowerBound, upperBound,
          newLowBound, newUpBound, allocOk, outcome, retF, retV, out, reads,
          nullDeref, seedCount, chained>>

\* A process that has called nothing yet.
NoCall ==
    /\ op = "none"
    /\ col = 0
    /\ lines = 0
    /\ numOfData = 0
    /\ vector = <<>>
    /\ allocOk = TRUE
    /\ outcome = "idle"
    /\ retF = F(0)
    /\ retV = NullVec
    /\ out = <<>>
    /\ reads = <<>>
    /\ nullDeref = FALSE
    /\ seedCount = 0
    /\ chained = FALSE

\* No scaling range is in use.
NoBounds ==
    /\ lowerBound = F(0)
    /\ upperBound = F(0)
    /\ newLowBound = F(0)
    /\ newUpBound = F(0)

\* The tables the statistics and the display are called on.
StatTables == Tables(MaxCells) \cup EmptyTables

\* The tables randomDataStream is called on.
SampleTables == Tables(MaxSampleCells) \cup EmptyTables

\* The caller has loaded a table.
InitTable == NoCall /\ NoBounds /\ df \in StatTables /\ data = <<>>

\* The caller has loaded a table to sample.
InitSample == NoCall /\ NoBounds /\ df \in SampleTables /\ data = <<>>

\* The caller has prepared a vector, its range and the range to scale it to.
InitVector ==
    /\ NoCall
    /\ df = NoTable
    /\ data \in Vectors(MaxLen)
    /\ lowerBound \in {F(x) : x \in ScaleVals}
    /\ upperBound \in {F(x) : x \in ScaleVals}
    /\ newLowBound \in {F(x) : x \in ScaleVals}
    /\ newUpBound \in {F(x) : x \in ScaleVals}

Init == InitTable \/ InitVector

\* The caller is between two calls.
Idle == outcome \in {"idle", "returned"}

\* The arguments of a call on the table.
TableCall(o, c, l, n) ==
    /\ df # NoTable
    /\ op' = o
    /\ col' = c
    /\ lines' = l
    /\ numOfData' = n
    /\ vector' = <<>>
    /\ chained' = FALSE
    /\ UNCHANGED <<df, data, lowerBound, upperBound, newLowBound, newUpBound>>

\* The arguments of a call on a vector.
VectorCall(o, v, n) ==
    /\ df = NoTable
    /\ op' = o
    /\ col' = 0
    /\ lines' = 0
    /\ numOfData' = n
    /\ vector' = v
    /\ UNCHANGED <<df, data>>

(* --------------------------- table access ----------------------------- *)

\* Whether dataFrame[r][c] is a cell of the table.
InTable(d, r, c) == r >= 0 /\ r < d.rows /\ c >= 0 /\ c < d.cols

\* df->dataFrame[r][c]: the cell, or what memory holds (g) outside the table.
Cell(d, r, c, g) == IF InTable(d, r, c) THEN d.dataFrame[r + 1][c + 1] ELSE F(g)

\* Whether every index of the read log lies in the table.
AllInTable(d, rd) == \A i \in 1..Len(rd) : InTable(d, rd[i][1], rd[i][2])

\* The reads of a loop over all rows of column c.
ColumnReads(d, c) == [i \in 1..d.rows |-> <<i - 1, c>>]

(* --------------------- calls that return a float ----------------------- *)

\* The reads made up to and including the first one outside the table.
ToFault(d, rd) ==
    LET bad == {i \in 1..Len(rd) : ~InTable(d, rd[i][1], rd[i][2])}
    IN  IF bad = {} THEN rd
        ELSE SubSeq(rd, 1, CHOOSE i \in bad : \A j \in bad : i <= j)

\* The end of a call that makes the reads rd and returns V[g], g being what
\* the reads outside the table find (0 when there is none). Such a read, and a write through a null
\* buffer (nd), are undefined behaviour: the call crashes or goes on.
FloatReturn(rd, nd, V) ==
    /\ nullDeref' = nd
    /\ retV' = NullVec
    /\ out' = <<>>
    /\ UNCHANGED seedCount
    /\ IF AllInTable(df, rd) /\ ~nd
       THEN /\ outcome' = "returned"
            /\ reads' = rd
            /\ retF' = V[0]
       ELSE \/ /\ outcome' = "crashed"
               /\ reads' = (IF nd /\ Len(rd) > 0 THEN SubSeq(rd, 1, 1)
                            ELSE ToFault(df, rd))
               /\ retF' = F(0)
            \/ \E g \in Garbage :
                 /\ outcome' = "returned"
                 /\ reads' = rd
                 /\ retF' = V[g]

(* ------------------------------- mean --------------------------------- *)

RECURSIVE SumRows(_, _, _, _)
\* sum after the first k iterations of mean's loop.
SumRows(d, c, k, g) ==
    IF k = 0 THEN F(0) ELSE FAdd(SumRows(d, c, k - 1, g), Cell(d, k - 1, c, g))

\* mean(df, col).
MeanOf(d, c, g) == FDiv(SumRows(d, c, d.rows, g), F(d.rows))

\* A call of mean(df, col).
Mean ==
    /\ Idle
    /\ \E c \in -1..df.cols :
         /\ TableCall("mean", c, 0, 0)
         /\ allocOk' = TRUE
         /\ FloatReturn(ColumnReads(df, c), FALSE, [g \in Garbage |-> MeanOf(df, c, g)])

(* ------------------------- standardDeviation --------------------------- *)

RECURSIVE SumSquares(_, _, _, _, _)
\* sum after the first k iterations of standardDeviation's loop.
SumSquares(d, c, k, meanVal, g) ==
    IF k = 0 THEN F(0)
    ELSE LET distance == FSub(Cell(d, k - 1, c, g), meanVal)
         IN  FAdd(SumSquares(d, c, k - 1, meanVal, g), FMul(distance, distance))

\* standardDeviation with the sample divisor rows - 1 in place of rows.
StandardDeviationOfSample(d, c, g) ==
    LET meanVal == MeanOf(d, c, g)
    IN  FDiv(SumSquares(d, c, d.rows, meanVal, g), F(d.rows - 1))

\* standardDeviation(df, col).
StandardDeviationOf(d, c, g) ==
    LET meanVal == MeanOf(d, c, g)
    IN  FDiv(SumSquares(d, c, d.rows, meanVal, g), F(d.rows))

\* A call of standardDeviation(df, col): mean's loop, then its own.
StandardDeviation ==
    /\ Idle
    /\ \E c \in -1..df.cols :
         /\ TableCall("standardDeviation", c, 0, 0)
         /\ allocOk' = TRUE
         /\ FloatReturn(ColumnReads(df, c) \o ColumnReads(df, c), FALSE,
                        [g \in Garbage |-> StandardDeviationOf(df, c, g)])

(* ------------------------------ median -------------------------------- *)

\* compareVectors(a, b).
CompareVectors(a, b) ==
    (IF FGt(a, b) THEN 1 ELSE 0) - (IF FLt(a, b) THEN 1 ELSE 0)

RECURSIVE Insert(_, _)
\* s, sorted, with x put at its place.
Insert(s, x) ==
    IF s = <<>> THEN <<x>>
    ELSE IF CompareVectors(x, Head(s)) <= 0 THEN <<x>> \o s
    ELSE <<Head(s)>> \o Insert(Tail(s), x)

RECURSIVE Qsort(_)
\* qsort(s, Len(s), sizeof(float), compareVectors).
Qsort(s) == IF s = <<>> THEN <<>> ELSE Insert(Qsort(Tail(s)), Head(s))

\* The reads of median: the copy of the column, then the middle position(s).
MedianReads(d, c) ==
    ColumnReads(d, c) \o
    (IF d.rows % 2 = 1 THEN <<<<(d.rows - 1) \div 2, c>>>>
     ELSE <<<<d.rows \div 2, c>>, <<d.rows \div 2 - 1, c>>>>)

\* median(df, col): the column is copied and the copy sorted, and the value
\* is read from dataFrame.
MedianOf(d, c, g) ==
    LET sortedFeature == Qsort([i \in 1..d.rows |-> Cell(d, i - 1, c, g)])
    IN  IF d.rows % 2 = 1
        THEN Cell(d, (d.rows - 1) \div 2, c, g)
        ELSE FDiv(FAdd(Cell(d, d.rows \div 2, c, g),
                       Cell(d, d.rows \div 2 - 1, c, g)), F(2))

\* A call of median(df, col); ok is whether createFloatVector's malloc gave a
\* buffer. The copy loop writes into the buffer without a check.
Median ==
    /\ Idle
    /\ \E c \in -1..df.cols : \E ok \in BOOLEAN :
         /\ TableCall("median", c, 0, 0)
         /\ allocOk' = ok
         /\ FloatReturn(MedianReads(df, c), ~ok /\ df.rows > 0,
                        [g \in Garbage |-> MedianOf(df, c, g)])

(* ---------------------------- head, tail ------------------------------ *)

Pow10(p) == IF p = 2 THEN 100 ELSE 1000

\* The digits printf("%.<p>f") prints for the finite float v: v * 10^p
\* rounded to the nearest integer, a tie to the even one.
Fixed(v, p) ==
    LET n == v[1] * Pow10(p)
        q == n \div v[2]
        r == n % v[2]
    IN  IF 2 * r > v[2] THEN q + 1
        ELSE IF 2 * r = v[2] THEN q + (q % 2)
        ELSE q

\* One printf of a cell: the digits, the precision and what follows it. The
\* padding to the width of 10 is not modelled.
Printed(v, p, sep) == [digits |-> Fixed(v, p), prec |-> p, sep |-> sep]

Banner(k, n) == [kind |-> k, n |-> n, cells |-> <<>>]

\* The line of row r: its cols cells, then puts(" ").
RowLine(d, r, p, sep, g) ==
    [kind |-> "row", n |-> r,
     cells |-> [c \in 1..d.cols |-> Printed(Cell(d, r, c - 1, g), p, sep)]]

\* The rows head's loop visits: row = 0; row < lines; row++.
HeadRows(l) == [i \in 1..(IF l > 0 THEN l ELSE 0) |-> i - 1]

\* tail's loop with row >= rows-lines-1: one row more.
TailRowsInclusive(rows, l) == [i \in 1..(IF l >= 0 THEN l + 1 ELSE 0) |-> rows - i]

\* The rows tail's loop visits: row = rows-1; row > rows-lines-1; row--.
TailRows(rows, l) == [i \in 1..(IF l > 0 THEN l ELSE 0) |-> rows - i]

\* The reads of the inner loops over the rows rs, in order.
RowReads(d, rs) ==
    [k \in 1..(Len(rs) * d.cols) |->
        <<rs[((k - 1) \div d.cols) + 1], (k - 1) % d.cols>>]

\* The rows of rs before the first one outside the table.
RowsBeforeFault(d, rs) ==
    LET bad == {i \in 1..Len(rs) : rs[i] < 0 \/ rs[i] >= d.rows}
    IN  IF bad = {} THEN rs
        ELSE SubSeq(rs, 1, (CHOOSE i \in bad : \A j \in bad : i <= j) - 1)

\* The body of head and tail: the banner, a line for each row of rs, the
\* closing banner. A row outside the table is undefined behaviour: the call
\* crashes there or prints what memory holds.
Display(o, l, rs, p, sep) ==
    /\ TableCall(o, 0, l, 0)
    /\ allocOk' = TRUE
    /\ nullDeref' = FALSE
    /\ retF' = F(0)
    /\ retV' = NullVec
    /\ UNCHANGED seedCount
    /\ IF AllInTable(df, RowReads(df, rs))
       THEN /\ outcome' = "returned"
            /\ reads' = RowReads(df, rs)
            /\ out' = <<Banner(o, l)>> \o
                       [i \in 1..Len(rs) |-> RowLine(df, rs[i], p, sep, 0)] \o
                       <<Banner("end", 0)>>
       ELSE \/ /\ outcome' = "crashed"
               /\ reads' = ToFault(df, RowReads(df, rs))
               /\ out' = <<Banner(o, l)>> \o
                          [i \in 1..Len(RowsBeforeFault(df, rs)) |->
                              RowLine(df, rs[i], p, sep, 0)]
            \/ \E g \in Garbage :
                 /\ outcome' = "returned"
                 /\ reads' = RowReads(df, rs)
                 /\ out' = <<Banner(o, l)>> \o
                            [i \in 1..Len(rs) |-> RowLine(df, rs[i], p, sep, g)] \o
                            <<Banner("end", 0)>>

\* A call of head(df, lines).
HeadCall ==
    /\ Idle
    /\ \E l \in -1..(df.rows + 1) : Display("head", l, HeadRows(l), 3, "\t")

\* A call of tail(df, lines).
TailCall ==
    /\ Idle
    /\ \E l \in -1..(df.rows + 1) :
         Display("tail", l, TailRows(df.rows, l), 2, " ")

(* ------------------------- randomDataStream --------------------------- *)

\* rand() % (bound + 1): an index that may be the bound itself.
SampleIndexInclusive(draw, bound) == draw % (bound + 1)

\* rand() % bound, for bound # 0.
SampleIndex(draw, bound) == draw % bound

\* The start of randomDataStream(df, numOfData): the malloc (ok is whether it
\* gave a buffer) and srand(time(NULL)).
RandomBegin ==
    /\ Idle
    /\ df.rows * df.cols <= MaxSampleCells
    /\ seedCount < MaxCalls
    /\ \E n \in 0..MaxN : \E ok \in BOOLEAN :
         /\ TableCall("randomDataStream", 0, 0, n)
         /\ allocOk' = ok
         /\ retV' = (IF ok THEN Vec([i \in 1..n |-> Uninit]) ELSE NullVec)
    /\ seedCount' = seedCount + 1
    /\ outcome' = "running"
    /\ reads' = <<>>
    /\ nullDeref' = FALSE
    /\ retF' = F(0)
    /\ out' = <<>>

\* One iteration of randomDataStream's loop, num being the number of
\* iterations made: two draws, the read of the cell and the write of
\* stream[num], through a null buffer when the malloc failed. rand() % 0 (a
\* table with no row) is undefined: it traps, or leaves the draw as it is.
RandomIter ==
    /\ outcome = "running"
    /\ op = "randomDataStream"
    /\ Len(reads) < numOfData
    /\ \E dx \in RandDraws : \E dy \in RandDraws : \E g \in Garbage :
         LET num == Len(reads)
             xIndex == IF df.rows = 0 THEN dx ELSE SampleIndex(dx, df.rows)
             yIndex == SampleIndex(dy, df.cols)
             undefined == df.rows = 0 \/ ~InTable(df, xIndex, yIndex) \/ ~allocOk
         IN  \/ /\ undefined
                /\ outcome' = "crashed"
                /\ reads' = (IF df.rows = 0 THEN reads
                             ELSE Append(reads, <<xIndex, yIndex>>))
                /\ nullDeref' = (~allocOk /\ InTable(df, xIndex, yIndex))
                /\ UNCHANGED retV
             \/ /\ outcome' = "running"
                /\ reads' = Append(reads, <<xIndex, yIndex>>)
                /\ nullDeref' = ~allocOk
                /\ retV' = (IF allocOk
                            THEN Vec([retV.elems EXCEPT
                                        ![num + 1] = Cell(df, xIndex, yIndex, g)])
                            ELSE retV)
    /\ UNCHANGED <<df, data, op, col, lines, numOfData, vector, lowerBound,
                   upperBound, newLowBound, newUpBound, allocOk, retF, out,
                   seedCount, chained>>

\* The return of stream once the loop has ended.
RandomReturn ==
    /\ outcome = "running"
    /\ op = "randomDataStream"
    /\ Len(reads) >= numOfData
    /\ outcome' = "returned"
    /\ UNCHANGED <<df, data, op, col, lines, numOfData, vector, lowerBound,
                   upperBound, newLowBound, newUpBound, allocOk, retF, retV,
                   out, reads, nullDeref, seedCount, chained>>

(* ------------------- calls that return a new vector -------------------- *)

\* The end of a call that mallocs a buffer (ok: it got one) and writes the
\* elements of w into it, with no check of the buffer: a write through a
\* null buffer is undefined behaviour, the call crashes or goes on.
VectorReturn(ok, w) ==
    /\ allocOk' = ok
    /\ retF' = F(0)
    /\ out' = <<>>
    /\ reads' = <<>>
    /\ UNCHANGED seedCount
    /\ nullDeref' = (~ok /\ Len(w) > 0)
    /\ IF ok \/ Len(w) = 0
       THEN /\ outcome' = "returned"
            /\ retV' = (IF ok THEN Vec(w) ELSE NullVec)
       ELSE \/ /\ outcome' = "crashed"
               /\ retV' = NullVec
            \/ /\ outcome' = "returned"
               /\ retV' = NullVec

\* A call of createFloatVector(len): the buffer, nothing written to it, or
\* the null pointer malloc returned.
CreateFloatVector ==
    /\ Idle
    /\ \E len \in 0..MaxLen : \E ok \in BOOLEAN :
         /\ numOfData' = len
         /\ allocOk' = ok
         /\ retV' = (IF ok THEN Vec([i \in 1..len |-> Uninit]) ELSE NullVec)
    /\ op' = "createFloatVector"
    /\ col' = 0
    /\ lines' = 0
    /\ vector' = <<>>
    /\ outcome' = "returned"
    /\ nullDeref' = FALSE
    /\ chained' = FALSE
    /\ retF' = F(0)
    /\ out' = <<>>
    /\ reads' = <<>>
    /\ UNCHANGED <<df, data, seedCount, lowerBound, upperBound, newLowBound,
                   newUpBound>>

(* ---------------------------- scaleToUnity ----------------------------- *)

\* The elements scaleToUnity writes.
UnityOf(v, lo, hi) == [i \in 1..Len(v) |-> FDiv(v[i], FSub(hi, lo))]

\* A call of scaleToUnity(data, Len(data), lowerBound, upperBound).
ScaleToUnity ==
    /\ Idle
    /\ VectorCall("scaleToUnity", data, Len(data))
    /\ chained' = FALSE
    /\ UNCHANGED <<lowerBound, upperBound, newLowBound, newUpBound>>
    /\ \E ok \in BOOLEAN : VectorReturn(ok, UnityOf(data, lowerBound, upperBound))

(* ----------------------------- scaleVector ----------------------------- *)

\* scale with the two ranges exchanged.
ScaleOfInverted(lo, hi, nlo, nhi) == FDiv(FSub(hi, lo), FSub(nhi, nlo))

\* scale = (newUpBound - newLowBound) / (upperBound - lowerBound).
ScaleOf(lo, hi, nlo, nhi) == FDiv(FSub(nhi, nlo), FSub(hi, lo))

\* offset without the scaling of lowerBound.
OffsetOfUnscaled(scale, lo, nlo) == FSub(nlo, lo)

\* offset = newLowBound - (scale * lowerBound).
OffsetOf(scale, lo, nlo) == FSub(nlo, FMul(scale, lo))

\* The elements scaleVector writes: vector[loop] * scale + offset.
ScaledOf(v, lo, hi, nlo, nhi) ==
    LET scale == ScaleOf(lo, hi, nlo, nhi)
        offset == OffsetOf(scale, lo, nlo)
    IN  [loop \in 1..Len(v) |-> FAdd(FMul(v[loop], scale), offset)]

\* A call of scaleVector(data, Len(data), lowerBound, upperBound,
\* newLowBound, newUpBound).
ScaleVector ==
    /\ Idle
    /\ VectorCall("scaleVector", data, Len(data))
    /\ chained' = FALSE
    /\ UNCHANGED <<lowerBound, upperBound, newLowBound, newUpBound>>
    /\ \E ok \in BOOLEAN :
         VectorReturn(ok, ScaledOf(data, lowerBound, upperBound,
                                   newLowBound, newUpBound))

\* The caller scales the vector scaleVector has just returned back to the
\* range it came from: scaleVector(ret, len, newLowBound, newUpBound,
\* lowerBound, upperBound).
ScaleVectorBack ==
    /\ outcome = "returned"
    /\ op = "scaleVector"
    /\ ~chained
    /\ ~retV.isNull
    /\ VectorCall("scaleVector", retV.elems, Len(retV.elems))
    /\ chained' = TRUE
    /\ lowerBound' = newLowBound
    /\ upperBound' = newUpBound
    /\ newLowBound' = lowerBound
    /\ newUpBound' = upperBound
    /\ \E ok \in BOOLEAN :
         VectorReturn(ok, ScaledOf(retV.elems, newLowBound, newUpBound,
                                   lowerBound, upperBound))

(* --------------------------- specifications --------------------------- *)

NextStats == CreateFloatVector \/ Mean \/ StandardDeviation \/ Median

NextView == HeadCall \/ TailCall

NextRandom == RandomBegin \/ RandomIter \/ RandomReturn

NextScale == ScaleToUnity \/ ScaleVector \/ ScaleVectorBack

Next == NextStats \/ NextView \/ NextRandom \/ NextScale

\* The statistics on a loaded table.
SpecStats == InitTable /\ [][NextStats]_vars

\* The display of a loaded table.
SpecView == InitTable /\ [][NextView]_vars

\* The sampling of a loaded table.
SpecRandom == InitSample /\ [][NextRandom]_vars

\* The scaling of a prepared vector.
SpecScale == InitVector /\ [][NextScale]_vars

\* The whole library.
Spec == Init /\ [][Next]_vars

(* ------------------------------ properties ----------------------------- *)

\* The call has ended, by a return or by a crash.
Ended == outcome \in {"returned", "crashed"}

\* col names a column of the table, which has a row.
ValidColumn == df.rows >= 1 /\ col >= 0 /\ col < df.cols

\* The values of column c of the table, top to bottom.
Column(d, c) == [i \in 1..d.rows |-> d.dataFrame[i][c + 1]]

\* The k-th smallest element of s, by counting: fewer than k elements are
\* below it and at least k are not above it.
KthSmallest(s, k) ==
    CHOOSE x \in {s[i] : i \in 1..Len(s)} :
        /\ Cardinality({i \in 1..Len(s) : FLt(s[i], x)}) < k
        /\ Cardinality({i \in 1..Len(s) : FLe(s[i], x)}) >= k

\* The median of s: the middle element in ascending order, or the average of
\* the two central ones.
SortedMiddle(s) ==
    IF Len(s) % 2 = 1 THEN KthSmallest(s, (Len(s) + 1) \div 2)
    ELSE FDiv(FAdd(KthSmallest(s, Len(s) \div 2),
                   KthSmallest(s, Len(s) \div 2 + 1)), F(2))

\* C1: for a table with rows >= 1 and a valid col, median returns the middle
\* element of the column sorted ascending (rows odd) or the average of its two
\* central elements (rows even), whatever the order of the rows.
C1_MedianIsSortedMiddle ==
    (op = "median" /\ outcome = "returned" /\ allocOk /\ ValidColumn)
        => retF = SortedMiddle(Column(df, col))

\* The input the specification calls invalid for the function called.
InvalidInput ==
    \/ /\ op \in {"mean", "median", "standardDeviation"}
       /\ (col < 0 \/ col >= df.cols \/ df.rows = 0)
    \/ /\ op \in {"head", "tail"}
       /\ (lines <= 0 \/ lines > df.rows)
    \/ /\ op \in {"scaleToUnity", "scaleVector"}
       /\ upperBound = lowerBound

\* The call told its caller it failed. No function of the library has a
\* status or an error value; a null vector is the one result that can say so.
FailureReported ==
    /\ outcome = "returned"
    /\ op \in {"createFloatVector", "randomDataStream", "scaleToUnity", "scaleVector"}
    /\ retV.isNull

\* C2: a call with an invalid input (col outside [0, cols) or no row for mean,
\* median, standardDeviation; lines <= 0 or lines > rows for head, tail;
\* upperBound = lowerBound for scaleToUnity, scaleVector) ends in a reported
\* error, with no read outside the table and no crash.
C2_InvalidInputIsAnError ==
    (InvalidInput /\ Ended)
        => /\ FailureReported
           /\ AllInTable(df, reads)
           /\ outcome # "crashed"

RECURSIVE IntSum(_, _)
\* The sum of the k first elements of the integer sequence s.
IntSum(s, k) == IF k = 0 THEN 0 ELSE IntSum(s, k - 1) + s[k]

\* The integer values of column c (the cells of a table are whole numbers).
IntColumn(d, c) == [i \in 1..d.rows |-> d.dataFrame[i][c + 1][1]]

C4_StreamOfTableCells ==
    (op = "randomDataStream" /\ df.rows >= 1 /\ df.cols >= 1)
        => /\ AllInTable(df, reads)
           /\ (outcome = "returned" /\ allocOk)
                => /\ ~retV.isNull
                   /\ Len(retV.elems) = numOfData
                   /\ Len(reads) = numOfData
                   /\ \A k \in 1..numOfData :
                        /\ retV.elems[k] =
                             df.dataFrame[reads[k][1] + 1][reads[k][2] + 1]
                        /\ \E r \in 1..df.rows : \E c \in 1..df.cols :
                             retV.elems[k] = df.dataFrame[r][c]

\* randomDataStream has returned two values drawn from two different cells.
C4_Witness ==
    /\ op = "randomDataStream"
    /\ outcome = "returned"
    /\ allocOk
    /\ numOfData = 2
    /\ df.rows >= 2
    /\ reads[1] # reads[2]
    /\ retV.elems[1] # retV.elems[2]

\* C5: over the calls of randomDataStream of one process, the random source
\* is seeded at most once.
C5_SeededAtMostOnce == seedCount <= 1

\* The call's arguments are valid ones for the function called.
ValidInput ==
    /\ ~InvalidInput
    /\ op = "randomDataStream" => df.rows >= 1

\* C6: when malloc fails in a call (of createFloatVector, randomDataStream,
\* median, scaleToUnity, scaleVector) on valid arguments, the call reports the
\* failure to its caller and nothing is written or read through the null
\* buffer.
C6_AllocFailureIsReported ==
    (~allocOk /\ ValidInput /\ Ended)
        => /\ FailureReported
           /\ ~nullDeref

\* C7: scaleVector from [lo, hi] to [newLo, newHi] and then back, with
\* lo # hi and newLo # newHi, reproduces the vector element by element, with
\* the same length.
C7_ScaleVectorRoundTrip ==
    (op = "scaleVector" /\ chained /\ outcome = "returned" /\ allocOk
        /\ lowerBound # upperBound /\ newLowBound # newUpBound)
        => /\ ~retV.isNull
           /\ Len(retV.elems) = Len(data)
           /\ \A i \in 1..Len(data) : retV.elems[i] = data[i]

\* A vector of two different elements has been scaled to another range, where
\* it differs, and back.
C7_Witness ==
    /\ op = "scaleVector"
    /\ chained
    /\ outcome = "returned"
    /\ allocOk
    /\ lowerBound # upperBound
    /\ newLowBound # newUpBound
    /\ Len(data) >= 2
    /\ data[1] # data[2]
    /\ vector # data
    /\ retV.elems = data

\* Whether x is the least (the greatest) element of the non-empty vector v.
IsMin(v, x) == (\E i \in 1..Len(v) : v[i] = x) /\ (\A i \in 1..Len(v) : FLe(x, v[i]))
IsMax(v, x) == (\E i \in 1..Len(v) : v[i] = x) /\ (\A i \in 1..Len(v) : FLe(v[i], x))

\* scaleVector has returned what it made of the vector, given the vector's
\* minimum and maximum, which differ, as bounds and [0, 1] as the new range.
MinMaxToUnit ==
    /\ op = "scaleVector"
    /\ ~chained
    /\ outcome = "returned"
    /\ allocOk
    /\ IsMin(vector, lowerBound)
    /\ IsMax(vector, upperBound)
    /\ lowerBound # upperBound
    /\ newLowBound = F(0)
    /\ newUpBound = F(1)

\* C8: scaleVector with lowerBound the vector's minimum, upperBound its
\* maximum (they differ), newLowBound 0 and newUpBound 1 returns elements in
\* [0, 1], 0 for each element equal to the minimum and 1 for each equal to
\* the maximum.
C8_MinMaxToUnitRange ==
    MinMaxToUnit
        => /\ ~retV.isNull
           /\ Len(retV.elems) = Len(vector)
           /\ \A i \in 1..Len(vector) :
                /\ FLe(F(0), retV.elems[i])
                /\ FLe(retV.elems[i], F(1))
                /\ (vector[i] = lowerBound => retV.elems[i] = F(0))
                /\ (vector[i] = upperBound => retV.elems[i] = F(1))

\* Such a call on a vector with an element strictly between its minimum and
\* its maximum, returned strictly between 0 and 1.
C8_Witness ==
    /\ MinMaxToUnit
    /\ \E i \in 1..Len(vector) :
         /\ FLt(lowerBound, vector[i])
         /\ FLt(vector[i], upperBound)
         /\ FLt(F(0), retV.elems[i])
         /\ FLt(retV.elems[i], F(1))

\* C9: scaleToUnity on a vector whose elements all lie in
\* [lowerBound, upperBound], with lowerBound < upperBound, returns elements
\* that all lie in [0, 1].
C9_UnityWithinZeroOne ==
    (op = "scaleToUnity" /\ outcome = "returned" /\ allocOk
        /\ FLt(lowerBound, upperBound)
        /\ \A i \in 1..Len(vector) :
             FLe(lowerBound, vector[i]) /\ FLe(vector[i], upperBound))
        => /\ ~retV.isNull
           /\ \A i \in 1..Len(retV.elems) :
                FLe(F(0), retV.elems[i]) /\ FLe(retV.elems[i], F(1))

\* The call printed its lines rows, the i-th line being row first + step*(i-1)
\* of the table with all its columns, and read those cells and no other, in
\* that order.
Emitted(first, step, p, sep) ==
    /\ Len(out) = lines + 2
    /\ \A i \in 1..lines :
         LET r == first + step * (i - 1)
         IN  /\ r >= 0 /\ r < df.rows
             /\ out[i + 1].kind = "row"
             /\ out[i + 1].n = r
             /\ Len(out[i + 1].cells) = df.cols
             /\ \A c \in 1..df.cols :
                  out[i + 1].cells[c] = Printed(df.dataFrame[r + 1][c], p, sep)
    /\ Len(reads) = lines * df.cols
    /\ \A i \in 1..lines : \A c \in 1..df.cols :
         reads[(i - 1) * df.cols + c] = <<first + step * (i - 1), c - 1>>

\* C10: for 0 < lines <= rows, head emits the rows 0, 1, ..., lines-1 in
\* that order and tail the rows rows-1, rows-2, ..., rows-lines, each once with
\* all cols columns and no row outside [0, rows) read; with lines = rows that
\* is every row, in the original and in the reverse order.
C10_HeadTailRows ==
    (op \in {"head", "tail"} /\ Ended /\ 0 < lines /\ lines <= df.rows)
        => /\ outcome = "returned"
           /\ AllInTable(df, reads)
           /\ (op = "head" => Emitted(0, 1, 3, "\t"))
           /\ (op = "tail" => Emitted(df.rows - 1, -1, 2, " "))

\* tail has printed all the rows of a table of at least three rows, not all
\* alike.
C10_Witness ==
    /\ op = "tail"
    /\ outcome = "returned"
    /\ lines = df.rows
    /\ df.rows >= 3
    /\ df.dataFrame[1] # df.dataFrame[3]
    /\ out[2].cells # out[lines + 1].cells

====
